---- MODULE Spec2Model ----
(***************************************************************************)
(* Bouncing ball in a spinning hexagon (src/main.go).                      *)
(*                                                                         *)
(* float64 values are modelled in binary fixed point: a length, velocity   *)
(* or plain factor x is the integer floor(x * One); an angle is the        *)
(* integer floor(a * AngleOne); a cosine or sine is floor(c * TrigOne);    *)
(* the segment parameter t of closestPointOnSegment is floor(t * TOne).    *)
(* Every product and quotient is rounded down to the grid, as a float64    *)
(* operation is rounded to its own (much finer) grid, and every            *)
(* intermediate value fits in 32 bits.                                     *)
(***************************************************************************)
EXTENDS Integers, TLC

\* ------------------------------------------------------------ number grid
One      == 2^14
TrigOne  == 2^15
AngleOne == 2^20
TBase    == 2^12
TOne     == TBase * TBase

Abs(x) == IF x < 0 THEN 0 - x ELSE x

\* floor(a * b / S), for S * S < 2^31: the float64 product of two grid values.
MulS(a, b, S) ==
  LET ah == a \div S
      al == a % S
      bh == b \div S
      bl == b % S
  IN  ah * bh * S + ah * bl + al * bh + (al * bl) \div S

\* floor(a * b / S^2): a product with a factor held on the finer grid S^2.
MulSS(a, b, S) ==
  LET ah == a \div S
      al == a % S
      bh == b \div S
      bl == b % S
  IN  ah * bh + (ah * bl + al * bh + (al * bl) \div S) \div S

FMul(a, b) == MulS(a, b, One)

\* floor(m * S / b) for 0 <= m < b < 2^30 and S a power of two: the binary
\* digits of m / b down to 1 / S, by long division.
RECURSIVE Frac(_, _, _)
Frac(m, b, S) ==
  IF S = 1 THEN 0
  ELSE LET m2  == 2 * m
           bit == IF m2 >= b THEN 1 ELSE 0
       IN  bit * (S \div 2) + Frac(m2 - bit * b, b, S \div 2)

\* floor(a * One / b), b > 0: the float64 quotient of two grid values.
FDiv(a, b) == (a \div b) * One + Frac(a % b, b, One)

\* x * num / den for a constant num/den of the source (0.99, 1.0/60.0, ...).
Ratio(x, num, den) == (x * num) \div den

\* floor(sqrt(n)) by Newton's iteration from a seed x above the root.
RECURSIVE Newton(_, _)
Newton(n, x) ==
  LET y == (x + n \div x) \div 2
  IN  IF y >= x THEN x ELSE Newton(n, y)

\* math.Sqrt on the grid, for One <= z <= 2 * One.
Sqrt(z) == Newton(z * One, 2 * One)

\* math.Hypot(p, q): p * Sqrt(1 + q * q) with q the smaller magnitude
\* divided by the larger one, p; 0 when both are 0.
HypotScaled(p, q) == FMul(p, Sqrt(One + FMul(q, q)))
HypotOrdered(p, q) == IF p = 0 THEN 0 ELSE HypotScaled(p, FDiv(q, p))
Hypot(x, y) ==
  IF Abs(x) < Abs(y) THEN HypotOrdered(Abs(y), Abs(x))
                     ELSE HypotOrdered(Abs(x), Abs(y))

\* --------------------------------------------------------- math.Cos, Sin
\* math.Pi on the angle grid: floor(Pi * 2^20 + 1/2).
PiA == 3294199

ToTrig(a) == a \div (AngleOne \div TrigOne)

\* Taylor polynomials on [0, Pi/4], argument and value on the TrigOne grid.
SinSeries(x, x2) ==
  LET x3 == MulS(x, x2, TrigOne)
      x5 == MulS(x3, x2, TrigOne)
      x7 == MulS(x5, x2, TrigOne)
  IN  x - x3 \div 6 + x5 \div 120 - x7 \div 5040
SinT(x) == SinSeries(x, MulS(x, x, TrigOne))

CosSeries(x2) ==
  LET x4 == MulS(x2, x2, TrigOne)
      x6 == MulS(x4, x2, TrigOne)
  IN  TrigOne - x2 \div 2 + x4 \div 24 - x6 \div 720
CosT(x) == CosSeries(MulS(x, x, TrigOne))

\* First quadrant, a in [0, Pi/2].
SinQ(a) == IF 4 * a <= PiA THEN SinT(ToTrig(a)) ELSE CosT(ToTrig(PiA \div 2 - a))
CosQ(a) == IF 4 * a <= PiA THEN CosT(ToTrig(a)) ELSE SinT(ToTrig(PiA \div 2 - a))

\* One turn, a in [0, 2 Pi).
SinTurn(a) ==
  IF 2 * a < PiA THEN SinQ(a)
  ELSE IF a < PiA THEN SinQ(PiA - a)
  ELSE IF 2 * (a - PiA) < PiA THEN 0 - SinQ(a - PiA)
  ELSE 0 - SinQ(2 * PiA - a)
CosTurn(a) ==
  IF 2 * a < PiA THEN CosQ(a)
  ELSE IF a < PiA THEN 0 - CosQ(PiA - a)
  ELSE IF 2 * (a - PiA) < PiA THEN 0 - CosQ(a - PiA)
  ELSE CosQ(2 * PiA - a)

Sin(angle) == SinTurn(angle % (2 * PiA))
Cos(angle) == CosTurn(angle % (2 * PiA))

\* ------------------------------------------------------------ Vector
Vector(x, y) == [X |-> x, Y |-> y]
Add(v, u) == Vector(v.X + u.X, v.Y + u.Y)
Sub(v, u) == Vector(v.X - u.X, v.Y - u.Y)
Mul(v, s) == Vector(FMul(v.X, s), FMul(v.Y, s))
Dot(v, u) == FMul(v.X, u.X) + FMul(v.Y, u.Y)
Len(v) == Hypot(v.X, v.Y)
Scaled(v, l) == IF l = 0 THEN Vector(0, 0) ELSE Vector(FDiv(v.X, l), FDiv(v.Y, l))
Normalize(v) == Scaled(v, Len(v))
Perp(v) == Vector(0 - v.Y, v.X)

\* ------------------------------------------------------------ constants
screenWidth  == 800
screenHeight == 600

\* dt := 1.0 / 60.0, the fixed time step of Update.
dt == [num |-> 1, den |-> 60]
\* gravity := 500.0
gravity == 500 * One
\* airFriction := 0.99
airFriction == [num |-> 99, den |-> 100]
\* restitution := 0.9
restitution == Ratio(One, 9, 10)

hexCenter == Vector((screenWidth \div 2) * One, (screenHeight \div 2) * One)

\* The state NewGame constructs (the ball image is not modelled).
NewGame ==
  [ballPos         |-> Vector((screenWidth \div 2) * One,
                              (screenHeight \div 2 - 150) * One),
   ballVel         |-> Vector(100 * One, 0),
   ballRadius      |-> 10 * One,
   hexRotation     |-> 0,
   hexAngularSpeed |-> One \div 2,
   hexRadius       |-> 200 * One]

\* ------------------------------------------------------------ state
\* game: the Game of main (its fields); steps: the calls of Update so far;
\* log: the locals of the last call of Update; scenario: the Game the run
\* started from; frameDt: the time step the driver asked the last call to
\* take; screen: what the last call of Draw rendered; twin, twinSteps: a
\* second Game, constructed like the first, and its calls of Update; tick:
\* the parity of the driver's ticks, each of which calls game.Update().
VARIABLES game, steps, log, scenario, frameDt, screen, twin, twinSteps, tick

vars == <<game, steps, log, scenario, frameDt, screen, twin, twinSteps, tick>>

\* ------------------------------------------------------------ geometry
Edges == 0 .. 5

\* Faulty variant: the vertices of the hexagon as it was constructed, the
\* rotation left out.
getHexagonVerticesUnturned(g) ==
  [i \in Edges |->
     LET angle == (i * 2 * PiA) \div 6
     IN  Vector(hexCenter.X + MulS(g.hexRadius, Cos(angle), TrigOne),
                hexCenter.Y + MulS(g.hexRadius, Sin(angle), TrigOne))]

getHexagonVertices(g) ==
  [i \in Edges |->
     LET angle == g.hexRotation + (i * 2 * PiA) \div 6
     IN  Vector(hexCenter.X + MulS(g.hexRadius, Cos(angle), TrigOne),
                hexCenter.Y + MulS(g.hexRadius, Sin(angle), TrigOne))]

\* t = (P-A).AB / AB.AB clamped to [0, 1], on the TOne grid; A + AB * t.
Clamped(num, den) ==
  IF num < 0 THEN 0
  ELSE IF num >= den THEN TOne
  ELSE Frac(num, den, TOne)
PointAt(A, AB, t) ==
  Add(A, Vector(MulSS(AB.X, t, TBase), MulSS(AB.Y, t, TBase)))
closestPointOnSegment(A, B, P) ==
  PointAt(A, Sub(B, A),
          Clamped(Dot(Sub(P, A), Sub(B, A)), Dot(Sub(B, A), Sub(B, A))))

\* ------------------------------------------------------------ Update
\* Gravity, then air friction, then the position from the updated velocity.
Fallen(vel, step) == Vector(vel.X, vel.Y + Ratio(gravity, step.num, step.den))
Damped(vel) == Vector(Ratio(vel.X, airFriction.num, airFriction.den),
                      Ratio(vel.Y, airFriction.num, airFriction.den))
Moved(pos, vel, step) ==
  [pos |-> Add(pos, Vector(Ratio(vel.X, step.num, step.den),
                           Ratio(vel.Y, step.num, step.den))),
   vel |-> vel]
\* Faulty variant: explicit Euler, the position from the velocity before the
\* call.
IntegrateExplicit(pos, vel, step) ==
  [pos |-> Moved(pos, vel, step).pos, vel |-> Damped(Fallen(vel, step))]
\* Faulty variant: damping and motion, gravity left out.
IntegrateWeightless(pos, vel, step) == Moved(pos, Damped(vel), step)
Integrate(pos, vel, step) == Moved(pos, Damped(Fallen(vel, step)), step)

\* Faulty variant: the rotation grows by hexAngularSpeed, dt left out.
RotateWholeSecond(rotation, angularSpeed, step) ==
  rotation + angularSpeed * (AngleOne \div One)
\* Faulty variant: the rotation from a count of calls that all Games share.
RotateShared(rotation, angularSpeed, step) ==
  (steps + 1) * Ratio(angularSpeed * (AngleOne \div One), step.num, step.den)

\* g.hexRotation += g.hexAngularSpeed * dt, on the angle grid.
Rotate(rotation, angularSpeed, step) ==
  rotation + Ratio(angularSpeed * (AngleOne \div One), step.num, step.den)

\* Faulty variant: the normal from the ball toward the closest point.
CollisionNormalOutward(diff, dist, A, B) ==
  IF dist # 0 THEN Normalize(Vector(0 - diff.X, 0 - diff.Y))
              ELSE Normalize(Perp(Sub(A, B)))

\* The collision normal: from the closest point toward the ball, or the
\* edge's perpendicular when the ball's center is exactly on the edge.
CollisionNormal(diff, dist, A, B) ==
  IF dist # 0 THEN Normalize(diff) ELSE Normalize(Perp(Sub(B, A)))

\* Faulty variant: half of the penetration corrected.
CorrectHalf(pos, normal, penetration) ==
  Add(pos, Mul(normal, penetration \div 2))

\* g.ballPos = g.ballPos.Add(normal.Mul(penetration))
Correct(pos, normal, penetration) == Add(pos, Mul(normal, penetration))

\* Faulty variant: r instead of r.Perp().
WallVelocityRadial(closest, angularSpeed) ==
  Mul(Sub(closest, hexCenter), angularSpeed)

\* wallVel := r.Perp().Mul(g.hexAngularSpeed), r := closest.Sub(hexCenter)
WallVelocity(closest, angularSpeed) ==
  Mul(Perp(Sub(closest, hexCenter)), angularSpeed)

\* Faulty variant: the elastic reflection, restitution left out.
ReflectElastic(relVel, normal, dot) ==
  Sub(relVel, Mul(normal, FMul(2 * One, dot)))

\* relVel = relVel.Sub(normal.Mul((1+restitution)*dot))
Reflect(relVel, normal, dot) ==
  Sub(relVel, Mul(normal, FMul(One + restitution, dot)))

\* Faulty variant: the reflection without the test dot < 0.
ResolveAlways(vel, wallVel, normal) ==
  Add(Sub(Sub(vel, wallVel),
          Mul(normal, FMul(One + restitution, Dot(Sub(vel, wallVel), normal)))),
      wallVel)

\* The velocity after the approach test: reflected in the wall's frame when
\* the ball moves into the wall, unchanged otherwise.
Approach(vel, wallVel, normal, dot) ==
  IF dot < 0 THEN Add(Reflect(Sub(vel, wallVel), normal, dot), wallVel) ELSE vel
Resolve(vel, wallVel, normal) ==
  Approach(vel, wallVel, normal, Dot(Sub(vel, wallVel), normal))

Zero == Vector(0, 0)

\* The body of "if dist < g.ballRadius", with its locals recorded.
Collision(closest, dist, normal, wallVel, pos, vel, g) ==
  [hit |-> TRUE, closest |-> closest, dist |-> dist,
   normal |-> normal, wallVel |-> wallVel,
   dot |-> Dot(Sub(vel, wallVel), normal),
   posBefore |-> pos, velBefore |-> vel,
   posAfter |-> Correct(pos, normal, g.ballRadius - dist),
   velAfter |-> Resolve(vel, wallVel, normal)]

Contact(closest, dist, A, B, pos, vel, g) ==
  IF dist < g.ballRadius
  THEN Collision(closest, dist,
                 CollisionNormal(Sub(pos, closest), dist, A, B),
                 WallVelocity(closest, g.hexAngularSpeed), pos, vel, g)
  ELSE [hit |-> FALSE, closest |-> closest, dist |-> dist,
        normal |-> Zero, wallVel |-> Zero, dot |-> 0,
        posBefore |-> pos, velBefore |-> vel,
        posAfter |-> pos, velAfter |-> vel]

Closest(closest, A, B, pos, vel, g) ==
  Contact(closest, Len(Sub(pos, closest)), A, B, pos, vel, g)

\* One iteration of the loop over the edges: the edge from A to B.
Edge(A, B, pos, vel, g) ==
  Closest(closestPointOnSegment(A, B, pos), A, B, pos, vel, g)

\* for i := 0; i < 6; i++ { ... }: the records of the edges i .. 5.
RECURSIVE Collide(_, _, _, _, _)
Rest(i, e, g, hexVertices) ==
  (i :> e) @@ Collide(i + 1, e.posAfter, e.velAfter, g, hexVertices)
Collide(i, pos, vel, g, hexVertices) ==
  IF i = 6 THEN <<>>
  ELSE Rest(i, Edge(hexVertices[i], hexVertices[(i + 1) % 6], pos, vel, g),
            g, hexVertices)

\* The game after the loop, and a record of the locals of the call.
Updated(g, turned, int, hexVertices, edges) ==
  [game |-> [turned EXCEPT !.ballPos = edges[5].posAfter,
                           !.ballVel = edges[5].velAfter],
   log  |-> [pos0 |-> g.ballPos, vel0 |-> g.ballVel, rot0 |-> g.hexRotation,
             posInt |-> int.pos, velInt |-> int.vel,
             hexVertices |-> hexVertices, edges |-> edges]]

Collided(g, turned, int, hexVertices) ==
  Updated(g, turned, int, hexVertices,
          Collide(0, int.pos, int.vel, turned, hexVertices))

Turned(g, turned, int) == Collided(g, turned, int, getHexagonVertices(turned))

\* Update: integrate the ball, turn the hexagon, then the loop over the edges.
Update(g) ==
  Turned(g,
         [g EXCEPT !.hexRotation = Rotate(g.hexRotation, g.hexAngularSpeed, dt)],
         Integrate(g.ballPos, g.ballVel, dt))

\* ------------------------------------------------------------ runs
MaxSteps == 1500

\* The Games a run starts from: the one NewGame constructs, and the Game
\* values of the test scenarios (section 8 of the specification), which set
\* the fields of the struct directly.
Scenarios == {"NewGame", "Drop", "Still", "Touch", "Slide", "Corner"}

ScenarioGame(s) ==
  CASE s = "NewGame" -> NewGame
    [] s = "Drop"    -> [NewGame EXCEPT !.ballPos = hexCenter,
                                        !.ballVel = Zero,
                                        !.hexAngularSpeed = 0]
    [] s = "Still"   -> [NewGame EXCEPT !.hexAngularSpeed = 0]
    [] s = "Touch"   -> [NewGame EXCEPT
                           !.ballPos = Vector(340 * One,
                                              463 * One + Ratio(One, 205, 1000)),
                           !.ballVel = Zero]
    [] s = "Slide"   -> [NewGame EXCEPT
                           !.ballPos = Vector(400 * One, 468 * One),
                           !.ballVel = Vector(50 * One, 0 - 100 * One)]
    [] s = "Corner"  -> [NewGame EXCEPT
                           !.ballPos = Vector(494 * One + One \div 2,
                                              463 * One + Ratio(One, 67, 100)),
                           !.ballVel = Zero]

NoEdge ==
  [hit |-> FALSE, closest |-> Zero, dist |-> 0, normal |-> Zero,
   wallVel |-> Zero, dot |-> 0, posBefore |-> Zero, velBefore |-> Zero,
   posAfter |-> Zero, velAfter |-> Zero]

NoLog ==
  [pos0 |-> Zero, vel0 |-> Zero, rot0 |-> 0, posInt |-> Zero,
   velInt |-> Zero, hexVertices |-> [i \in Edges |-> Zero],
   edges |-> [i \in Edges |-> NoEdge]]

NoScreen == [frame |-> 0 - 1, ballPos |-> Zero, ballRadius |-> 0,
             hexVertices |-> [i \in Edges |-> Zero]]

\* The time steps a driver may ask for: the canonical 1/60 s, and 1/30 s.
FrameDts == {dt, [num |-> 1, den |-> 30]}

Init ==
  /\ scenario \in Scenarios
  /\ game = ScenarioGame(scenario)
  /\ steps = 0
  /\ log = NoLog
  /\ frameDt = dt
  /\ screen = NoScreen
  /\ twin = game
  /\ twinSteps = 0
  /\ tick = 0

\* One call of game.Update() by a driver that asked for the time step d.
Step(d) ==
  /\ LET r == Update(game)
     IN  game' = r.game /\ log' = r.log
  /\ frameDt' = d
  /\ tick' = 1 - tick
  /\ UNCHANGED <<scenario, screen, twin>>

\* The driver's call of Update, once per tick.
Tick ==
  /\ steps < MaxSteps
  /\ Step(dt)
  /\ steps' = steps + 1
  /\ UNCHANGED twinSteps

Next == Tick

Spec == Init /\ [][Next]_vars

\* ---- a driver that asks for any time step and renders between the calls
MaxDriverSteps == 10

\* What Draw renders: the six edges from the current vertices, and the ball
\* image centered at ballPos (frame: the calls of Update before this Draw).
Render(g, frame) ==
  [frame |-> frame, ballPos |-> g.ballPos, ballRadius |-> g.ballRadius,
   hexVertices |-> getHexagonVertices(g)]

Draw ==
  /\ screen' = Render(game, steps)
  /\ UNCHANGED <<game, steps, log, scenario, frameDt, twin, twinSteps, tick>>

DriverTick ==
  /\ steps < MaxDriverSteps
  /\ \E d \in FrameDts : Step(d)
  /\ steps' = steps + 1
  /\ UNCHANGED twinSteps

NextDriver == DriverTick \/ Draw

SpecDriver == Init /\ [][NextDriver]_vars

\* ---- two Games constructed alike, each updated by its own calls
MaxPairSteps == 120
MaxSkew == 2

PairTick ==
  /\ steps < MaxPairSteps
  /\ steps - twinSteps < MaxSkew
  /\ Step(dt)
  /\ steps' = steps + 1
  /\ UNCHANGED twinSteps

TwinTick ==
  /\ twinSteps < MaxPairSteps
  /\ twinSteps - steps < MaxSkew
  /\ twin' = Update(twin).game
  /\ twinSteps' = twinSteps + 1
  /\ UNCHANGED <<game, steps, log, scenario, frameDt, screen, tick>>

NextPair == PairTick \/ TwinTick

SpecPair == Init /\ [][NextPair]_vars

\* ---- the drop test: the driver calls Update on every tick, for ever
InitDrop == Init /\ scenario = "Drop"

Run ==
  /\ Step(dt)
  /\ steps' = IF steps < MaxSteps THEN steps + 1 ELSE steps
  /\ UNCHANGED twinSteps

NextDrop == Run

\* The driver's loop does not stop: there is always another tick.
Beat == tick' = 1 - tick

SpecDrop == InitDrop /\ [][NextDrop]_vars /\ WF_tick(Beat)

\* ------------------------------------------------------------ claims
\* Rounding allowances: Eps for a length (about 0.002 pixel), Tol(x) for a
\* quantity computed from a magnitude x (a thousandth of it, and Eps).
Eps == One \div 512
Tol(x) == Abs(x) \div 1024 + Eps
Near(a, b, x) == Abs(a - b) <= Tol(x)

\* The distance from the ball's center to the closest point of edge i.
DistTo(A, B, P) == Len(Sub(P, closestPointOnSegment(A, B, P)))
EdgeDist(g, i) ==
  DistTo(getHexagonVertices(g)[i], getHexagonVertices(g)[(i + 1) % 6], g.ballPos)

HitEdges == {i \in Edges : log.edges[i].hit}

\* C1: after every call of Update, the ball's center is at least
\* ballRadius - Eps away from the closest point of each of the six edges.
C1_NonPenetration ==
  steps >= 1 => \A i \in Edges : EdgeDist(game, i) >= game.ballRadius - Eps

\* A call that corrected the ball at two edges, one after the other.
C1_Witness ==
  /\ steps >= 1
  /\ \E i, j \in HitEdges : i < j
  /\ \A i \in Edges : EdgeDist(game, i) >= game.ballRadius - Eps

\* C2: at a penetrated edge where the ball does not approach the wall
\* (dot >= 0), the velocity is left as it was and the position moves by
\* normal * (ballRadius - dist).
C2_SeparatingLeftAlone ==
  \A i \in HitEdges :
    LET e == log.edges[i]
    IN  e.dot >= 0 =>
          /\ e.velAfter = e.velBefore
          /\ e.posAfter = Add(e.posBefore,
                              Mul(e.normal, game.ballRadius - e.dist))

C2_Witness ==
  \E i \in HitEdges :
    /\ log.edges[i].dot > 0
    /\ log.edges[i].velBefore # Zero
    /\ log.edges[i].velAfter = log.edges[i].velBefore

\* C3: with hexAngularSpeed = 0, a bounce (dot < 0) leaves the normal
\* component of the velocity at restitution * |dot| <= |dot|, leaves the
\* component orthogonal to the normal as it was, and does not raise the
\* ball's speed.
C3_EnergyNonIncrease ==
  game.hexAngularSpeed = 0 =>
    \A i \in HitEdges :
      LET e == log.edges[i]
          t == Perp(e.normal)
          speed == Len(e.velBefore)
      IN  e.dot < 0 =>
            /\ Near(Dot(e.velAfter, e.normal), 0 - FMul(restitution, e.dot), speed)
            /\ Abs(Dot(e.velAfter, e.normal)) <= Abs(e.dot) + Tol(speed)
            /\ Near(Dot(e.velAfter, t), Dot(e.velBefore, t), speed)
            /\ Len(e.velAfter) <= speed + Tol(speed)

\* An oblique bounce off a wall that does not move.
C3_Witness ==
  /\ game.hexAngularSpeed = 0
  /\ \E i \in HitEdges :
       /\ log.edges[i].dot < 0 - One
       /\ Abs(Dot(log.edges[i].velBefore, Perp(log.edges[i].normal))) > One
       /\ Len(log.edges[i].velAfter) < Len(log.edges[i].velBefore)

\* The calls the scenario of C4 is about: the ball was at rest before the
\* call, and at edge i it met a wall that moves toward it and along itself.
WallMeetsBall(i) ==
  /\ log.vel0 = Zero
  /\ log.edges[i].hit
  /\ log.edges[i].dot < 0
  /\ Dot(log.edges[i].wallVel, log.edges[i].normal) > One
  /\ Abs(Dot(log.edges[i].wallVel, Perp(log.edges[i].normal))) > One

\* C4 as stated: the bounce off the rotating wall gives the ball's velocity
\* a component that is not along the normal (the weakest reading: the
\* component orthogonal to the normal changes by more than rounding).
C4_TangentialImparted ==
  \A i \in Edges :
    LET e == log.edges[i]
        t == Perp(e.normal)
    IN  WallMeetsBall(i) =>
          Abs(Dot(e.velAfter, t) - Dot(e.velBefore, t))
            > Tol(Len(e.velBefore) + Len(e.wallVel))

\* C4, amended: a bounce off a rotating wall sets the velocity to the
\* reflected relative velocity plus wallVel: seen from the wall, the normal
\* component becomes -restitution * dot and the component orthogonal to the
\* normal stays, so the ball's own velocity changes along the normal only
\* and gains nothing along the wall; wallVel is the velocity of the contact
\* point, orthogonal to its offset r from the center, of magnitude
\* |hexAngularSpeed| * |r|, turning the way the hexagon turns.
C4_RotatingWall ==
  \A i \in HitEdges :
    LET e == log.edges[i]
        t == Perp(e.normal)
        r == Sub(e.closest, hexCenter)
        w == game.hexAngularSpeed
        speed == Len(e.velBefore) + Len(e.wallVel)
    IN  e.dot < 0 =>
          /\ Near(Dot(Sub(e.velAfter, e.wallVel), e.normal),
                  0 - FMul(restitution, e.dot), speed)
          /\ Near(Dot(Sub(e.velAfter, e.wallVel), t),
                  Dot(Sub(e.velBefore, e.wallVel), t), speed)
          /\ Near(Dot(e.velAfter, t), Dot(e.velBefore, t), speed)
          /\ Near(Dot(e.wallVel, Normalize(r)), 0, speed)
          /\ Near(Len(e.wallVel), FMul(Abs(w), Len(r)), speed)
          /\ w > 0 => Dot(e.wallVel, Perp(r)) > 0

\* The first call of Update on a ball at rest that touches a wall which
\* turns toward it: the ball leaves faster than the wall along the normal.
C4_Witness ==
  /\ steps = 1
  /\ game.hexAngularSpeed > 0
  /\ \E i \in Edges :
       /\ WallMeetsBall(i)
       /\ Dot(game.ballVel, log.edges[i].normal) >
            Dot(log.edges[i].wallVel, log.edges[i].normal)

\* C6: hexAngularSpeed keeps the value it was constructed with, and
\* hexRotation is the number of calls of Update times hexAngularSpeed * dt.
C6_RotationLinear ==
  /\ game.hexAngularSpeed = ScenarioGame(scenario).hexAngularSpeed
  /\ game.hexRotation =
       steps * Ratio(ScenarioGame(scenario).hexAngularSpeed
                       * (AngleOne \div One), dt.num, dt.den)

C6_Witness ==
  /\ steps >= 100
  /\ HitEdges # {}
  /\ game.hexRotation > PiA \div 4

\* The ball's center is on the inner side of the line through edge i.
InnerSide(g, i) ==
  LET hv == getHexagonVertices(g)
  IN  Dot(Perp(Sub(hv[(i + 1) % 6], hv[i])), Sub(g.ballPos, hv[i])) > 0

\* C10: the ball's center is inside the hexagon, and the normal of every
\* resolved collision points to the hexagon's interior.
C10_Containment ==
  /\ \A i \in Edges : InnerSide(game, i)
  /\ \A i \in HitEdges :
       Dot(log.edges[i].normal, Sub(hexCenter, log.edges[i].closest)) > 0

C10_Witness ==
  /\ steps >= 1
  /\ HitEdges # {}
  /\ \A i \in Edges : InnerSide(game, i)

\* The game after n calls of Update, and nothing else, from the Game g.
RECURSIVE Trajectory(_, _)
Trajectory(g, n) == IF n = 0 THEN g ELSE Trajectory(Update(g).game, n - 1)

\* What one call of Update does when it advances the system by the step d:
\* gravity, then damping, then the position from the updated velocity, then
\* the rotation, and then the pass over the edges 0 .. 5 with the vertices
\* of the updated rotation.
StepLaw(d) ==
  LET vy == log.vel0.Y + (gravity * d.num) \div d.den
      v  == Vector((log.vel0.X * 99) \div 100, (vy * 99) \div 100)
  IN  /\ log.velInt = v
      /\ log.posInt = Vector(log.pos0.X + (v.X * d.num) \div d.den,
                             log.pos0.Y + (v.Y * d.num) \div d.den)
      /\ game.hexRotation =
           log.rot0 + (game.hexAngularSpeed * (AngleOne \div One) * d.num) \div d.den
      /\ log.hexVertices = getHexagonVertices(game)
      /\ log.edges[0].posBefore = log.posInt
      /\ log.edges[0].velBefore = log.velInt
      /\ \A i \in 1 .. 5 : /\ log.edges[i].posBefore = log.edges[i - 1].posAfter
                           /\ log.edges[i].velBefore = log.edges[i - 1].velAfter
      /\ game.ballPos = log.edges[5].posAfter
      /\ game.ballVel = log.edges[5].velAfter

\* C5 as stated: a call of Update advances the system by the time step the
\* driver passed, whatever it is.
C5_AdvancesByPassedDt == steps >= 1 => StepLaw(frameDt)

\* C5, amended: Update takes no time step; every call advances the system by
\* dt = 1/60 s, in the order gravity, damping, position, rotation, edges.
C5_AdvancesByFixedDt == steps >= 1 => StepLaw(dt)

\* A call made by a driver that asked for 1/30 s, in which the ball bounced.
C5_Witness ==
  /\ steps >= 1
  /\ frameDt # dt
  /\ HitEdges # {}
  /\ StepLaw(dt)

\* sqrt(3)/2 on the grid.
Sin60 == Newton((3 * One * One) \div 4, One)

\* The vector v turned by 60 degrees, from the X axis toward the Y axis.
Turn60(v) == Vector(v.X \div 2 - FMul(v.Y, Sin60), FMul(v.X, Sin60) + v.Y \div 2)

\* C8: Draw changes no field of the game (the game is always the one that
\* the calls of Update alone produce), and what it renders is the ball and
\* the six vertices center + hexRadius * (cos, sin)(hexRotation + i * 2 Pi / 6)
\* of the game at that time, in that order: all at hexRadius from the center,
\* each 60 degrees after the one before.
C8_SnapshotPure ==
  /\ game = Trajectory(ScenarioGame(scenario), steps)
  /\ screen # NoScreen =>
       LET g == Trajectory(ScenarioGame(scenario), screen.frame)
       IN  /\ screen.ballPos = g.ballPos
           /\ screen.ballRadius = g.ballRadius
           /\ \A i \in Edges :
                LET a == g.hexRotation + (i * 2 * PiA) \div 6
                    v == Sub(screen.hexVertices[i], hexCenter)
                    u == Sub(screen.hexVertices[(i + 1) % 6], hexCenter)
                IN  /\ v = Vector(MulS(g.hexRadius, Cos(a), TrigOne),
                                  MulS(g.hexRadius, Sin(a), TrigOne))
                    /\ Near(Len(v), g.hexRadius, g.hexRadius)
                    /\ Near(u.X, Turn60(v).X, g.hexRadius)
                    /\ Near(u.Y, Turn60(v).Y, g.hexRadius)

\* A frame drawn after a bounce, with calls of Update after it.
C8_Witness ==
  /\ screen # NoScreen
  /\ screen.frame >= 1
  /\ screen.frame < steps
  /\ screen.hexVertices # getHexagonVertices(game)
  /\ HitEdges # {}

AtRest(limit) ==
  /\ Abs(EdgeDist(game, 1) - game.ballRadius) <= Eps
  /\ Len(game.ballVel) <= limit

\* C7 as stated implies that the speed of the dropped ball ends below any
\* positive bound, so below 1 pixel per second.
C7_SpeedDecaysToZero == <>[]AtRest(One)

\* C7, amended: the dropped ball ends on the bottom edge, at ballRadius from
\* it after every call, and its speed ends at no more than what gravity adds
\* in one call (gravity * dt); it does not go to zero.
C7_SettlesOnBottomEdge == <>[]AtRest(Ratio(gravity, dt.num, dt.den))

\* The dropped ball on the bottom edge, pushed back up by the last call.
C7_Witness ==
  /\ scenario = "Drop"
  /\ log.edges[1].hit
  /\ AtRest(Ratio(gravity, dt.num, dt.den))
  /\ Len(game.ballVel) > One

====
